---- MODULE Spec2Model ----
(***************************************************************************)
(* Model of the mp3tools metadata scripts:                                 *)
(*   src/mp3metadata/transfer-mp3md.py   export_metadata / import_metadata *)
(*   src/transfer-mp3md/transfer-mp3md.py  the earlier version of the two  *)
(*   src/mp3metadata/md-csv2json.py      convert_csvs_to_json              *)
(*                                                                         *)
(* Text is modelled as sequences of one-character strings so that          *)
(* strip/lower, str(int), pandas' integer inference, os.path.splitext and  *)
(* json.dumps/json.loads are computed, not assumed.                        *)
(***************************************************************************)
EXTENDS Integers, Sequences, FiniteSets, TLC

VARIABLES
    fs,        \* the audio files: path -> length, bitrate and ID3 tag
    csv,       \* the table file of the export and import runs
    out,       \* what the last run did and reported
    combined,  \* the JSON index written by md-csv2json
    cue,       \* the cue sequence a cue run started from
    runs,      \* the number of export runs so far
    inputs     \* the paths given to md-csv2json

vars == <<fs, csv, out, combined, cue, runs, inputs>>

-----------------------------------------------------------------------------
(* Bounds of the model                                                     *)

MaxRows == 2
MaxCues == 2

-----------------------------------------------------------------------------
(* Characters, integers and Python values                                  *)

Digits == <<"0", "1", "2", "3", "4", "5", "6", "7", "8", "9">>

IsDigit(c) == \E i \in 1..Len(Digits) : Digits[i] = c

DigitVal(c) == (CHOOSE i \in 1..Len(Digits) : Digits[i] = c) - 1

Upper == <<"D", "F", "M", "P">>
Lower == <<"d", "f", "m", "p">>

\* str.lower() on one character
LowerChar(c) ==
    IF \E i \in 1..Len(Upper) : Upper[i] = c
    THEN Lower[CHOOSE i \in 1..Len(Upper) : Upper[i] = c]
    ELSE c

\* str.lower()
lower(s) == [i \in 1..Len(s) |-> LowerChar(s[i])]

RECURSIVE lstrip(_)
lstrip(s) == IF s # <<>> /\ Head(s) = " " THEN lstrip(Tail(s)) ELSE s

RECURSIVE rstrip(_)
rstrip(s) ==
    IF s # <<>> /\ s[Len(s)] = " " THEN rstrip(SubSeq(s, 1, Len(s) - 1)) ELSE s

\* str.strip()
strip(s) == rstrip(lstrip(s))

\* str.endswith(suffix)
endswith(s, suffix) ==
    /\ Len(s) >= Len(suffix)
    /\ SubSeq(s, Len(s) - Len(suffix) + 1, Len(s)) = suffix

\* int(s) for a string of decimal digits
RECURSIVE ParseInt(_)
ParseInt(s) ==
    IF s = <<>> THEN 0
    ELSE 10 * ParseInt(SubSeq(s, 1, Len(s) - 1)) + DigitVal(s[Len(s)])

\* str(n) for n >= 0
RECURSIVE IntToStr(_)
IntToStr(n) ==
    IF n < 10 THEN <<Digits[n + 1]>>
    ELSE IntToStr(n \div 10) \o <<Digits[(n % 10) + 1]>>

\* A value held in a DataFrame cell or a frame: a str, an int or NaN.
StrV(s) == [t |-> "str", s |-> s, n |-> 0]
IntV(n) == [t |-> "int", s |-> <<>>, n |-> n]
NaN == [t |-> "nan", s |-> <<>>, n |-> 0]

\* Python truthiness: "" and 0 are falsy
Truthy(v) ==
    CASE v.t = "str" -> v.s # <<>>
      [] v.t = "int" -> v.n # 0
      [] OTHER -> TRUE

\* str(v)
PyStr(v) ==
    CASE v.t = "str" -> v.s
      [] v.t = "int" -> IntToStr(v.n)
      [] OTHER -> <<"n", "a", "n">>

\* The index of the first occurrence of x in the sequence s, 0 when absent
IndexOf(s, x) ==
    IF \E i \in 1..Len(s) : s[i] = x
    THEN CHOOSE i \in 1..Len(s) : s[i] = x /\ \A j \in 1..(i - 1) : s[j] # x
    ELSE 0

Contains(s, x) == IndexOf(s, x) # 0

RECURSIVE Flatten(_)
Flatten(ss) == IF ss = <<>> THEN <<>> ELSE Head(ss) \o Flatten(Tail(ss))

-----------------------------------------------------------------------------
(* Python dicts and pandas DataFrames                                      *)

\* A dict is a sequence of [k, v] pairs in insertion order.
DictKeys(d) == [i \in 1..Len(d) |-> d[i].k]

DictHas(d, key) == \E i \in 1..Len(d) : d[i].k = key

\* d[key]; a later pair for the same key overrides an earlier one
DictGet(d, key) ==
    d[CHOOSE i \in 1..Len(d) :
        d[i].k = key /\ \A j \in (i + 1)..Len(d) : d[j].k # key].v

\* The keys of a list of dicts in order of first appearance
RECURSIVE UnionKeys(_, _)
UnionKeys(records, acc) ==
    IF records = <<>> THEN acc
    ELSE LET ks == DictKeys(Head(records))
             fresh == SelectSeq(ks, LAMBDA c : ~Contains(acc, c))
         IN UnionKeys(Tail(records), acc \o fresh)

\* pd.DataFrame(records): a key a record lacks becomes NaN in its row
DataFrame(records) ==
    LET cols == UnionKeys(records, <<>>)
    IN [columns |-> cols,
        rows |-> [i \in 1..Len(records) |->
                    [j \in 1..Len(cols) |->
                        IF DictHas(records[i], cols[j])
                        THEN DictGet(records[i], cols[j])
                        ELSE NaN]]]

\* df.empty
DfEmpty(df) == Len(df.rows) = 0 \/ Len(df.columns) = 0

\* "c in df.columns"
HasColumn(df, c) == Contains(df.columns, c)

\* row.get(c): None, which is falsy, when the column is absent
RowGet(df, row, c) ==
    IF HasColumn(df, c) THEN row[IndexOf(df.columns, c)] ELSE StrV(<<>>)

-----------------------------------------------------------------------------
(* The table file: a header line and rows of cells, all text               *)

NoFile == [exists |-> FALSE, header |-> <<>>, rows |-> <<>>]

CsvFile(header, rows) == [exists |-> TRUE, header |-> header, rows |-> rows]

\* A cell pandas reads as an integer: a non-empty run of decimal digits
IsIntLiteral(s) == s # <<>> /\ \A i \in 1..Len(s) : IsDigit(s[i])

\* A line shorter than the header is padded with empty fields
PadRow(r, n) == [j \in 1..n |-> IF j <= Len(r) THEN r[j] ELSE <<>>]

\* pandas' dtype inference: a column whose every cell is an integer literal is
\* read as int64; with keep_default_na=False any other column stays text.
ColumnIsInt(rows, j) ==
    rows # <<>> /\ \A i \in 1..Len(rows) : IsIntLiteral(rows[i][j])

\* pd.read_csv(path, encoding="utf-8-sig", keep_default_na=False)
read_csv(file) ==
    IF ~file.exists THEN
        [err |-> "FileNotFoundError", columns |-> <<>>, rows |-> <<>>]
    ELSE IF file.header = <<>> THEN
        [err |-> "EmptyDataError", columns |-> <<>>, rows |-> <<>>]
    ELSE IF \E i \in 1..Len(file.rows) : Len(file.rows[i]) > Len(file.header) THEN
        [err |-> "ParserError", columns |-> <<>>, rows |-> <<>>]
    ELSE
        LET n == Len(file.header)
            padded == [i \in 1..Len(file.rows) |-> PadRow(file.rows[i], n)]
        IN [err |-> "none",
            columns |-> file.header,
            rows |-> [i \in 1..Len(padded) |->
                        [j \in 1..n |->
                            IF ColumnIsInt(padded, j)
                            THEN IntV(ParseInt(padded[i][j]))
                            ELSE StrV(padded[i][j])]]]

\* The text to_csv writes for one value, with na_rep=""
CellText(v) == IF v.t = "nan" THEN <<>> ELSE PyStr(v)

\* to_csv(columns=cols) selects df.loc[:, cols]: a KeyError when a label is
\* not a column of df
ToCsvKeyError(df, cols) == \E j \in 1..Len(cols) : ~HasColumn(df, cols[j])

\* The lines to_csv writes for the rows of df under the given columns
ToCsvRows(df, cols) ==
    [i \in 1..Len(df.rows) |->
        [j \in 1..Len(cols) |-> CellText(df.rows[i][IndexOf(df.columns, cols[j])])]]

-----------------------------------------------------------------------------
(* json.dumps and json.loads on the cue cell                               *)

Quote == "\""
Backslash == "\\"

TS_MS == <<"t", "s", "_", "m", "s">>
TEXT == <<"t", "e", "x", "t">>

\* A string written between quotes as it is, nothing escaped
JsonEscapeNone(s) == s

\* The characters of a JSON string literal: quote and backslash are escaped
RECURSIVE JsonEscape(_)
JsonEscape(s) ==
    IF s = <<>> THEN <<>>
    ELSE (IF Head(s) = Quote \/ Head(s) = Backslash
          THEN <<Backslash, Head(s)>>
          ELSE <<Head(s)>>) \o JsonEscape(Tail(s))

JsonString(s) == <<Quote>> \o JsonEscape(s) \o <<Quote>>

\* json.dumps of an int or a str
JsonScalar(v) == IF v.t = "int" THEN IntToStr(v.n) ELSE JsonString(v.s)

\* json.dumps of one dict, items separated by ", " and keys by ": "
RECURSIVE JsonMembers(_)
JsonMembers(d) ==
    IF d = <<>> THEN <<>>
    ELSE JsonString(Head(d).k) \o <<":", " ">> \o JsonScalar(Head(d).v)
         \o (IF Len(d) > 1 THEN <<",", " ">> ELSE <<>>) \o JsonMembers(Tail(d))

JsonObject(d) == <<"{">> \o JsonMembers(d) \o <<"}">>

RECURSIVE JsonItems(_)
JsonItems(entries) ==
    IF entries = <<>> THEN <<>>
    ELSE JsonObject(Head(entries))
         \o (IF Len(entries) > 1 THEN <<",", " ">> ELSE <<>>)
         \o JsonItems(Tail(entries))

\* json.dumps(entries, ensure_ascii=False) for a list of dicts
json_dumps(entries) == <<"[">> \o JsonItems(entries) \o <<"]">>

ParseFail == [ok |-> FALSE, pos |-> 0, val |-> <<>>]
ParseOk(pos, val) == [ok |-> TRUE, pos |-> pos, val |-> val]

At(s, i) == IF i >= 1 /\ i <= Len(s) THEN s[i] ELSE "EOF"

RECURSIVE SkipWs(_, _)
SkipWs(s, i) == IF At(s, i) = " " THEN SkipWs(s, i + 1) ELSE i

\* The body of a string literal from position i, after the opening quote
RECURSIVE ParseStringBody(_, _, _)
ParseStringBody(s, i, acc) ==
    CASE At(s, i) = "EOF" -> ParseFail
      [] At(s, i) = Quote -> ParseOk(i + 1, acc)
      [] At(s, i) = Backslash ->
            IF At(s, i + 1) = Quote \/ At(s, i + 1) = Backslash
            THEN ParseStringBody(s, i + 2, Append(acc, At(s, i + 1)))
            ELSE ParseFail
      [] OTHER -> ParseStringBody(s, i + 1, Append(acc, s[i]))

\* The end of the run of digits that starts at i
RECURSIVE DigitsEnd(_, _)
DigitsEnd(s, i) == IF IsDigit(At(s, i)) THEN DigitsEnd(s, i + 1) ELSE i

\* A string literal read as a value
StringValue(r) == IF r.ok THEN ParseOk(r.pos, StrV(r.val)) ELSE ParseFail

\* The digits s[i..e-1] read as a value; a leading zero is no JSON number
NumberValue(s, i, e) ==
    IF At(s, i) = "0" /\ e > i + 1 THEN ParseFail
    ELSE ParseOk(e, IntV(ParseInt(SubSeq(s, i, e - 1))))

\* A string or a non-negative integer
ParseScalar(s, i) ==
    CASE At(s, i) = Quote -> StringValue(ParseStringBody(s, i + 1, <<>>))
      [] IsDigit(At(s, i)) -> NumberValue(s, i, DigitsEnd(s, i))
      [] OTHER -> ParseFail

\* key: value pairs up to the closing brace, from position i
RECURSIVE ParseMembers(_, _, _)

\* After a member: a comma and the next member, or the closing brace
MembersSep(s, i, d) ==
    CASE At(s, i) = "," -> ParseMembers(s, i + 1, d)
      [] At(s, i) = "}" -> ParseOk(i + 1, d)
      [] OTHER -> ParseFail

MembersNext(s, key, v, acc) ==
    IF ~v.ok THEN ParseFail
    ELSE MembersSep(s, SkipWs(s, v.pos), Append(acc, [k |-> key, v |-> v.val]))

MembersValue(s, key, i, acc) ==
    IF At(s, i) # ":" THEN ParseFail
    ELSE MembersNext(s, key, ParseScalar(s, SkipWs(s, i + 1)), acc)

MembersColon(s, k, acc) ==
    IF ~k.ok THEN ParseFail ELSE MembersValue(s, k.val, SkipWs(s, k.pos), acc)

MembersKey(s, i, acc) ==
    IF At(s, i) # Quote THEN ParseFail
    ELSE MembersColon(s, ParseStringBody(s, i + 1, <<>>), acc)

ParseMembers(s, i, acc) == MembersKey(s, SkipWs(s, i), acc)

\* The object after its opening brace at i, j the next position with text
ObjectBody(s, i, j) ==
    IF At(s, j) = "}" THEN ParseOk(j + 1, <<>>) ELSE ParseMembers(s, i + 1, <<>>)

ParseObject(s, i) ==
    IF At(s, i) # "{" THEN ParseFail ELSE ObjectBody(s, i, SkipWs(s, i + 1))

\* objects up to the closing bracket, from position i
RECURSIVE ParseItems(_, _, _)

ItemsSep(s, i, l) ==
    CASE At(s, i) = "," -> ParseItems(s, i + 1, l)
      [] At(s, i) = "]" -> ParseOk(i + 1, l)
      [] OTHER -> ParseFail

ItemsNext(s, o, acc) ==
    IF ~o.ok THEN ParseFail
    ELSE ItemsSep(s, SkipWs(s, o.pos), Append(acc, o.val))

ParseItems(s, i, acc) == ItemsNext(s, ParseObject(s, SkipWs(s, i)), acc)

\* Nothing but blanks may follow the array
WholeText(s, r) ==
    IF r.ok /\ SkipWs(s, r.pos) = Len(s) + 1 THEN r ELSE ParseFail

\* The array after its opening bracket at i, j the next position with text
ArrayBody(s, i, j) ==
    IF At(s, j) = "]" THEN ParseOk(j + 1, <<>>) ELSE ParseItems(s, i + 1, <<>>)

ArrayAt(s, i) ==
    IF At(s, i) # "[" THEN ParseFail
    ELSE WholeText(s, ArrayBody(s, i, SkipWs(s, i + 1)))

\* json.loads(cell) where the result is used as a list of dicts: ok is FALSE
\* when the text is no JSON array of objects with string or integer members
json_loads(s) == ArrayAt(s, SkipWs(s, 1))

-----------------------------------------------------------------------------
(* Column names of the table                                               *)

FILENAME == <<"f", "i", "l", "e", "n", "a", "m", "e">>
TITLE == <<"t", "i", "t", "l", "e">>
ARTIST == <<"a", "r", "t", "i", "s", "t">>
ALBUM == <<"a", "l", "b", "u", "m">>
TRACKNUMBER == <<"t", "r", "a", "c", "k", "n", "u", "m", "b", "e", "r">>
DISC == <<"d", "i", "s", "c">>
GENRE == <<"g", "e", "n", "r", "e">>
DATE == <<"d", "a", "t", "e">>
COMPOSER == <<"c", "o", "m", "p", "o", "s", "e", "r">>
COMMENTS == <<"c", "o", "m", "m", "e", "n", "t", "s">>
LENGTH == <<"l", "e", "n", "g", "t", "h">>
BITRATE == <<"b", "i", "t", "r", "a", "t", "e">>
LYRICS == <<"l", "y", "r", "i", "c", "s">>
SYNCED_LYRICS == <<"s", "y", "n", "c", "e", "d", "_", "l", "y", "r", "i", "c", "s">>

-----------------------------------------------------------------------------
(* ID3 tags (mutagen.id3.ID3): frames in storage order, one per hash key   *)

Frame(id, desc, text, time) ==
    [id |-> id, desc |-> desc, lang |-> "eng", text |-> text, time |-> time]

TextFrame(id, chars) == Frame(id, <<>>, <<StrV(chars)>>, <<>>)

\* Frame.HashKey: the frame id, with description and language where the
\* frame type has them
HashKey(f) == <<f.id, f.desc, f.lang>>

\* ID3.delall(id)
delall(tags, id) == SelectSeq(tags, LAMBDA f : f.id # id)

\* ID3.getall(id)
getall(tags, id) == SelectSeq(tags, LAMBDA f : f.id = id)

\* ID3.add(frame): tags[frame.HashKey] = frame
add(tags, frame) ==
    IF \E i \in 1..Len(tags) : HashKey(tags[i]) = HashKey(frame)
    THEN [i \in 1..Len(tags) |->
            IF HashKey(tags[i]) = HashKey(frame) THEN frame ELSE tags[i]]
    ELSE Append(tags, frame)

\* "id3.get(frame).text[0] if id3.get(frame) else ''"
get_txt(tags, id) ==
    IF getall(tags, id) # <<>> THEN getall(tags, id)[1].text[1] ELSE StrV(<<>>)

-----------------------------------------------------------------------------
(* The file system: fs maps the path of each audio file to its content     *)

MP3_EXT == <<".", "m", "p", "3">>

AudioFile(secs, bitrate, tag) == [secs |-> secs, bitrate |-> bitrate, tag |-> tag]

\* os.path.isfile
isfile(files, path) == path \in DOMAIN files

\* os.path.isdir: the directories of the model are those that hold a file
isdir(files, d) ==
    \E p \in DOMAIN files : Len(p) > Len(d) /\ SubSeq(p, 1, Len(d)) = d

\* os.path.join(mp3_dir, fn): joining an empty name names the directory
join(d, fn) == IF fn = <<>> THEN Append(d, <<>>) ELSE Append(d, fn)

\* os.path.basename
basename(path) == path[Len(path)]

\* "try: ID3(path) except ID3NoHeaderError: ID3()": a file without a tag
\* header reads as the empty tag
LoadID3(files, path) == files[path].tag

\* tags.save(path, v2_version=4)
SaveID3(files, path, tags) == [files EXCEPT ![path].tag = tags]

-----------------------------------------------------------------------------
(* import, src/mp3metadata/transfer-mp3md.py                               *)

ManagedFrames ==
    <<"TIT2", "TPE1", "TALB", "TRCK", "TPOS", "TCON", "TDRC",
      "TCOM", "COMM", "USLT", "SYLT", "TXXX">>

RECURSIVE DelAllOf(_, _)
DelAllOf(tags, ids) ==
    IF ids = <<>> THEN tags ELSE DelAllOf(delall(tags, Head(ids)), Tail(ids))

\* "if row.get(col): tags.add(FRAME(encoding=3, text=[row[col]]))"
AddText(tags, df, row, col, id) ==
    IF Truthy(RowGet(df, row, col))
    THEN add(tags, Frame(id, <<>>, <<RowGet(df, row, col)>>, <<>>))
    ELSE tags

\* "if row.get(col): tags.add(FRAME(encoding=3, text=[str(row[col])]))"
AddTextStr(tags, df, row, col, id) ==
    IF Truthy(RowGet(df, row, col))
    THEN add(tags, Frame(id, <<>>, <<StrV(PyStr(RowGet(df, row, col)))>>, <<>>))
    ELSE tags

\* "if 'lyrics' in df.columns and row['lyrics']"
AddLyrics(tags, df, row) ==
    IF HasColumn(df, LYRICS) /\ Truthy(RowGet(df, row, LYRICS))
    THEN add(tags, Frame("USLT", <<>>, <<RowGet(df, row, LYRICS)>>, <<>>))
    ELSE tags

\* "if 'synced_lyrics' in df.columns and row['synced_lyrics']"
HasCueCell(df, row) ==
    HasColumn(df, SYNCED_LYRICS) /\ Truthy(RowGet(df, row, SYNCED_LYRICS))

\* json.loads of the cue cell; an integer cell is no str and raises TypeError
LoadCues(v) == IF v.t = "str" THEN json_loads(v.s) ELSE ParseFail

\* e["text"] and e["ts_ms"] exist for every entry (else KeyError)
EntriesComplete(entries) ==
    \A i \in 1..Len(entries) :
        DictHas(entries[i], TEXT) /\ DictHas(entries[i], TS_MS)

\* The parsed cell cannot be used: json.loads failed or an entry lacks a key
CuesRaise(r) == ~r.ok \/ ~EntriesComplete(r.val)

\* The row's cue cell raises
CueCellRaises(df, row) ==
    HasCueCell(df, row) /\ CuesRaise(LoadCues(RowGet(df, row, SYNCED_LYRICS)))

\* SYLT(encoding=3, desc="", lang="eng", type=1, text=texts, time=times)
SyltOfEntries(entries) ==
    Frame("SYLT", <<>>,
          [i \in 1..Len(entries) |-> DictGet(entries[i], TEXT)],
          [i \in 1..Len(entries) |-> DictGet(entries[i], TS_MS)])

AddSynced(tags, df, row) ==
    IF HasCueCell(df, row)
    THEN add(tags, SyltOfEntries(LoadCues(RowGet(df, row, SYNCED_LYRICS)).val))
    ELSE tags

\* The frames written for one row: delete every managed frame, then add a
\* frame for each truthy cell
RowTags(tags, df, row) ==
    LET t0 == DelAllOf(tags, ManagedFrames)
        t1 == AddText(t0, df, row, TITLE, "TIT2")
        t2 == AddText(t1, df, row, ARTIST, "TPE1")
        t3 == AddText(t2, df, row, ALBUM, "TALB")
        t4 == AddTextStr(t3, df, row, TRACKNUMBER, "TRCK")
        t5 == AddTextStr(t4, df, row, DISC, "TPOS")
        t6 == AddText(t5, df, row, GENRE, "TCON")
        t7 == AddText(t6, df, row, DATE, "TDRC")
        t8 == AddText(t7, df, row, COMPOSER, "TCOM")
        t9 == AddText(t8, df, row, COMMENTS, "COMM")
        t10 == AddLyrics(t9, df, row)
    IN AddSynced(t10, df, row)

\* tags.save(full_path, v2_version=4); updated += 1
SaveRow(acc, i, full_path, tags) ==
    [acc EXCEPT !.files = SaveID3(acc.files, full_path, tags),
                !.updated = acc.updated + 1,
                !.saves = Append(acc.saves,
                            [row |-> i, path |-> full_path, tags |-> tags])]

\* One pass of the loop body: a row whose file is missing is passed over; an
\* exception is raised out of the loop
ImportRow(df, acc, i, row, full_path) ==
    IF ~isfile(acc.files, full_path) THEN acc
    ELSE IF CueCellRaises(df, row) THEN [acc EXCEPT !.raised = TRUE, !.at = i]
    ELSE SaveRow(acc, i, full_path, RowTags(LoadID3(acc.files, full_path), df, row))

\* The loop over df.iterrows() from row i; an exception ends the run with the
\* files saved so far
RECURSIVE ImportRows(_, _, _, _)
ImportRows(df, mp3_dir, i, acc) ==
    IF i > Len(df.rows) \/ acc.raised THEN acc
    ELSE ImportRows(df, mp3_dir, i + 1,
            ImportRow(df, acc, i, df.rows[i],
                      join(mp3_dir, PyStr(RowGet(df, df.rows[i], FILENAME)))))

\* A rename that lowercases without trimming
RenameColumnsNoStrip(df) ==
    [df EXCEPT !.columns = [j \in 1..Len(df.columns) |-> lower(df.columns[j])]]

\* df.rename(columns=lambda c: c.strip().lower())
RenameColumns(df) ==
    [df EXCEPT !.columns = [j \in 1..Len(df.columns) |-> lower(strip(df.columns[j]))]]

ImportStart(files, mp3_dir) ==
    [files |-> files, before |-> files, mp3_dir |-> mp3_dir, updated |-> 0, saves |-> <<>>,
     warnings |-> <<>>, raised |-> FALSE, at |-> 0]

ImportOut(impl, status, df, acc) ==
    [op |-> "import", impl |-> impl, status |-> status, df |-> df,
     before |-> acc.before, mp3_dir |-> acc.mp3_dir, total |-> Len(df.rows), updated |-> acc.updated, saves |-> acc.saves,
     warnings |-> acc.warnings, at |-> acc.at]

\* The run ends with the files as acc holds them
ImportEnd(impl, status, df, acc) ==
    [files |-> acc.files, out |-> ImportOut(impl, status, df, acc)]

ImportDone(df, acc) ==
    ImportEnd("mp3metadata", IF acc.raised THEN "raised" ELSE "done", df, acc)

\* import_metadata after the table was read
ImportTable(err, df, mp3_dir, none) ==
    IF err = "FileNotFoundError" THEN ImportEnd("mp3metadata", "not_found", df, none)
    ELSE IF err # "none" THEN ImportEnd("mp3metadata", "raised", df, none)
    ELSE IF ~HasColumn(df, FILENAME)
    THEN ImportEnd("mp3metadata", "schema_error", df, none)
    ELSE ImportDone(df, ImportRows(df, mp3_dir, 1, none))

ImportRead(read, files, mp3_dir) ==
    ImportTable(read.err, RenameColumns(read), mp3_dir, ImportStart(files, mp3_dir))

\* import_metadata(csv_path, mp3_dir): the files and the report it ends with
import_metadata(file, files, mp3_dir) == ImportRead(read_csv(file), files, mp3_dir)

-----------------------------------------------------------------------------
(* import, src/transfer-mp3md/transfer-mp3md.py (the earlier script)       *)

LegacyFrames ==
    <<"TIT2", "TPE1", "TALB", "TRCK", "TCON", "TDRC", "TCOM", "COMM">>

\* Clear the eight standard frames, then add a frame for each truthy cell
LegacyRowTags(tags, df, row) ==
    LET t0 == DelAllOf(tags, LegacyFrames)
        t1 == AddText(t0, df, row, TITLE, "TIT2")
        t2 == AddText(t1, df, row, ARTIST, "TPE1")
        t3 == AddText(t2, df, row, ALBUM, "TALB")
        t4 == AddTextStr(t3, df, row, TRACKNUMBER, "TRCK")
        t5 == AddText(t4, df, row, GENRE, "TCON")
        t6 == AddText(t5, df, row, DATE, "TDRC")
        t7 == AddText(t6, df, row, COMPOSER, "TCOM")
    IN AddText(t7, df, row, COMMENTS, "COMM")

\* print(f"Warning: ..., skipping.", file=sys.stderr)
Warn(acc, i, kind) ==
    [acc EXCEPT !.warnings = Append(acc.warnings, [row |-> i, kind |-> kind])]

\* One pass of the loop body: a row without a filename and a row whose file
\* is missing are skipped with a warning each
LegacyImportRow(df, acc, i, row, fn, full_path) ==
    IF ~Truthy(fn) THEN Warn(acc, i, "missing filename")
    ELSE IF ~isfile(acc.files, full_path) THEN Warn(acc, i, "not found")
    ELSE SaveRow(acc, i, full_path,
                 LegacyRowTags(LoadID3(acc.files, full_path), df, row))

\* The loop over df.iterrows() from row i
RECURSIVE LegacyImportRows(_, _, _, _)
LegacyImportRows(df, mp3_dir, i, acc) ==
    IF i > Len(df.rows) THEN acc
    ELSE LegacyImportRows(df, mp3_dir, i + 1,
            LegacyImportRow(df, acc, i, df.rows[i],
                            RowGet(df, df.rows[i], FILENAME),
                            join(mp3_dir, PyStr(RowGet(df, df.rows[i], FILENAME)))))

\* import_metadata of the earlier script after the table was read
LegacyImportTable(err, df, mp3_dir, none) ==
    IF ~isdir(none.files, mp3_dir) \/ err = "FileNotFoundError"
    THEN ImportEnd("legacy", "exit", df, none)
    ELSE IF err # "none" THEN ImportEnd("legacy", "raised", df, none)
    ELSE IF ~HasColumn(df, FILENAME) THEN ImportEnd("legacy", "schema_error", df, none)
    ELSE ImportEnd("legacy", "done", df, LegacyImportRows(df, mp3_dir, 1, none))

LegacyImportRead(read, files, mp3_dir) ==
    LegacyImportTable(read.err, RenameColumns(read), mp3_dir,
                      ImportStart(files, mp3_dir))

\* import_metadata(csv_path, mp3_dir) of the earlier script
legacy_import_metadata(file, files, mp3_dir) ==
    LegacyImportRead(read_csv(file), files, mp3_dir)

-----------------------------------------------------------------------------
(* export, src/mp3metadata/transfer-mp3md.py                               *)

DirD == <<<<"d">>>>
DirS == <<<<"d">>, <<"s">>>>
DirE == <<<<"e">>>>

NameA == <<"a", ".", "m", "p", "3">>
NameB == <<"b", ".", "M", "P", "3">>
NameC == <<"c", ".", "m", "p", "3">>
NameN == <<"n", ".", "t", "x", "t">>

\* Every path of the model, a directory's own files before its subdirectories
AllPaths ==
    <<Append(DirD, NameA), Append(DirD, NameB), Append(DirD, NameN),
      Append(DirS, NameA), Append(DirE, NameC)>>

\* os.walk(d) with the ".mp3" filter: the audio files under d at any depth
WalkMp3(files, d) ==
    SelectSeq(AllPaths, LAMBDA p :
        /\ p \in DOMAIN files
        /\ Len(p) > Len(d) /\ SubSeq(p, 1, Len(d)) = d
        /\ endswith(lower(basename(p)), MP3_EXT))

\* f"{m}:{s:02d}" or str(secs)
FormatLength(secs, length_format) ==
    IF length_format = "seconds" THEN IntToStr(secs)
    ELSE IntToStr(secs \div 60) \o <<":">>
         \o (IF secs % 60 < 10 THEN <<"0">> ELSE <<>>) \o IntToStr(secs % 60)

DISC_DESCS == {<<"d", "i", "s", "c">>, <<"d", "i", "s", "k">>}

\* The last TXXX frame, in storage order, whose description is disc/disk
TxxxDiscLast(tags) ==
    LET hits == SelectSeq(getall(tags, "TXXX"),
                          LAMBDA f : lower(strip(f.desc)) \in DISC_DESCS)
    IN IF hits = <<>> THEN StrV(<<>>) ELSE hits[Len(hits)].text[1]

\* The first TXXX frame, in storage order, whose description is disc/disk
TxxxDisc(tags) ==
    LET hits == SelectSeq(getall(tags, "TXXX"),
                          LAMBDA f : lower(strip(f.desc)) \in DISC_DESCS)
    IN IF hits = <<>> THEN StrV(<<>>) ELSE hits[1].text[1]

\* disc: TPOS, or the TXXX fallback when TPOS gives nothing
DiscOf(tags) ==
    IF Truthy(get_txt(tags, "TPOS")) THEN get_txt(tags, "TPOS") ELSE TxxxDisc(tags)

\* "comms[0].text[0] if comms else ''"
FirstComment(tags) ==
    IF getall(tags, "COMM") # <<>> THEN getall(tags, "COMM")[1].text[1] ELSE StrV(<<>>)

\* zip(f2.text, f2.time) of one SYLT frame as ts_ms/text dicts
FrameEntries(f) ==
    [i \in 1..(IF Len(f.text) < Len(f.time) THEN Len(f.text) ELSE Len(f.time)) |->
        <<[k |-> TS_MS, v |-> f.time[i]], [k |-> TEXT, v |-> f.text[i]]>>]

\* The entries of all SYLT frames, frame after frame
SyncEntries(tags) ==
    LET sync == getall(tags, "SYLT")
    IN Flatten([i \in 1..Len(sync) |-> FrameEntries(sync[i])])

\* rec["lyrics"] is set only when a USLT frame exists
LyricsItems(tags) ==
    IF getall(tags, "USLT") # <<>>
    THEN <<[k |-> LYRICS, v |-> getall(tags, "USLT")[1].text[1]]>>
    ELSE <<>>

\* rec["synced_lyrics"] is set only when a SYLT frame exists
SyncedItems(tags) ==
    IF getall(tags, "SYLT") # <<>>
    THEN <<[k |-> SYNCED_LYRICS, v |-> StrV(json_dumps(SyncEntries(tags)))]>>
    ELSE <<>>

\* The record of one file
RecordOf(files, path, length_format) ==
    LET f == files[path]
        id3 == LoadID3(files, path)
    IN <<[k |-> FILENAME, v |-> StrV(basename(path))],
         [k |-> TITLE, v |-> get_txt(id3, "TIT2")],
         [k |-> ARTIST, v |-> get_txt(id3, "TPE1")],
         [k |-> ALBUM, v |-> get_txt(id3, "TALB")],
         [k |-> TRACKNUMBER, v |-> get_txt(id3, "TRCK")],
         [k |-> DISC, v |-> DiscOf(id3)],
         [k |-> GENRE, v |-> get_txt(id3, "TCON")],
         [k |-> DATE, v |-> get_txt(id3, "TDRC")],
         [k |-> COMPOSER, v |-> get_txt(id3, "TCOM")],
         [k |-> COMMENTS, v |-> FirstComment(id3)],
         [k |-> LENGTH, v |-> StrV(FormatLength(f.secs, length_format))],
         [k |-> BITRATE, v |-> IntV(f.bitrate \div 1000)]>>
       \o LyricsItems(id3) \o SyncedItems(id3)

\* The records of the directories, in order; a path that is no directory
\* and a directory without audio files are passed over
RECURSIVE CollectRecords(_, _, _)
CollectRecords(files, mp3_dirs, length_format) ==
    IF mp3_dirs = <<>> THEN <<>>
    ELSE
    LET d == Head(mp3_dirs)
        dir_files == IF isdir(files, d) THEN WalkMp3(files, d) ELSE <<>>
    IN [i \in 1..Len(dir_files) |-> RecordOf(files, dir_files[i], length_format)]
       \o CollectRecords(files, Tail(mp3_dirs), length_format)

\* "df_exist[c] = ''" for each missing column
AddEmptyColumns(df, missing) ==
    [columns |-> df.columns \o missing,
     rows |-> [i \in 1..Len(df.rows) |->
                 df.rows[i] \o [j \in 1..Len(missing) |-> StrV(<<>>)]]]

ExportOut(impl, status, before, df_new, rewrote) ==
    [op |-> "export", impl |-> impl, status |-> status, before |-> before,
     df_new |-> df_new, rewrote |-> rewrote]

\* The table step of export_metadata: append to a table that has rows,
\* after widening its header, or write a new table. write_fails is the
\* append's write failing with an OSError.
WriteTable(file, df_new, write_fails) ==
    LET df_exist == read_csv(file)
        has_data == df_exist.err = "none" /\ ~DfEmpty(df_exist)
    IN IF df_exist.err = "ParserError"
       THEN [file |-> file,
             out |-> ExportOut("mp3metadata", "ParserError", file, df_new, FALSE)]
       ELSE IF has_data THEN
            LET missing == SelectSeq(df_new.columns,
                                     LAMBDA c : ~Contains(df_exist.columns, c))
                existing_cols == df_exist.columns \o missing
                widened == AddEmptyColumns(df_exist, missing)
                rewritten == IF missing # <<>>
                             THEN CsvFile(existing_cols,
                                          ToCsvRows(widened, existing_cols))
                             ELSE file
            IN IF ToCsvKeyError(df_new, existing_cols)
               THEN [file |-> rewritten,
                     out |-> ExportOut("mp3metadata", "KeyError", file, df_new,
                                       missing # <<>>)]
               ELSE IF write_fails
               THEN [file |-> rewritten,
                     out |-> ExportOut("mp3metadata", "OSError", file, df_new,
                                       missing # <<>>)]
               ELSE [file |-> [rewritten EXCEPT !.rows =
                                  rewritten.rows \o ToCsvRows(df_new, existing_cols)],
                     out |-> ExportOut("mp3metadata", "appended", file, df_new,
                                       missing # <<>>)]
       ELSE [file |-> CsvFile(df_new.columns, ToCsvRows(df_new, df_new.columns)),
             out |-> ExportOut("mp3metadata", "created", file, df_new, FALSE)]

\* export_metadata(mp3_dirs, csv_path, length_format)
export_metadata(file, files, mp3_dirs, length_format, write_fails) ==
    WriteTable(file, DataFrame(CollectRecords(files, mp3_dirs, length_format)),
               write_fails)

-----------------------------------------------------------------------------
(* export, src/transfer-mp3md/transfer-mp3md.py (the earlier script)       *)

LegacyRecordOf(files, path) ==
    LET id3 == LoadID3(files, path)
    IN <<[k |-> FILENAME, v |-> StrV(basename(path))],
         [k |-> TITLE, v |-> get_txt(id3, "TIT2")],
         [k |-> ARTIST, v |-> get_txt(id3, "TPE1")],
         [k |-> ALBUM, v |-> get_txt(id3, "TALB")],
         [k |-> TRACKNUMBER, v |-> get_txt(id3, "TRCK")],
         [k |-> GENRE, v |-> get_txt(id3, "TCON")],
         [k |-> DATE, v |-> get_txt(id3, "TDRC")],
         [k |-> COMPOSER, v |-> get_txt(id3, "TCOM")],
         [k |-> COMMENTS, v |-> FirstComment(id3)]>>

\* "['filename'] + [c for c in existing_cols if c in df_new.columns and
\* c != 'filename']"
ColsToWrite(existing_cols, df_new) ==
    <<FILENAME>> \o SelectSeq(existing_cols,
                              LAMBDA c : HasColumn(df_new, c) /\ c # FILENAME)

\* The table step of the earlier export_metadata
LegacyWriteTable(file, df_new) ==
    LET df_existing == read_csv(file)
        has_data == df_existing.err = "none" /\ ~DfEmpty(df_existing)
    IN IF df_existing.err = "ParserError"
       THEN [file |-> file,
             out |-> ExportOut("legacy", "ParserError", file, df_new, FALSE)]
       ELSE IF has_data THEN
            LET cols_to_write == ColsToWrite(df_existing.columns, df_new)
            IN IF Len(cols_to_write) = 1
               THEN [file |-> file,
                     out |-> ExportOut("legacy", "warned", file, df_new, FALSE)]
               ELSE [file |-> [file EXCEPT !.rows =
                                  file.rows \o ToCsvRows(df_new, cols_to_write)],
                     out |-> ExportOut("legacy", "appended", file, df_new, FALSE)]
       ELSE [file |-> CsvFile(df_new.columns, ToCsvRows(df_new, df_new.columns)),
             out |-> ExportOut("legacy", "created", file, df_new, FALSE)]

\* export_metadata(mp3_dir, csv_path) of the earlier script
legacy_export_metadata(file, files, mp3_dir) ==
    IF ~isdir(files, mp3_dir)
    THEN [file |-> file,
          out |-> ExportOut("legacy", "exit", file, DataFrame(<<>>), FALSE)]
    ELSE LET walked == WalkMp3(files, mp3_dir)
         IN LegacyWriteTable(file,
                DataFrame([i \in 1..Len(walked) |-> LegacyRecordOf(files, walked[i])]))

-----------------------------------------------------------------------------
(* Inputs: tags, directory trees, rows and tables                          *)

\* A SYLT frame holding the given (offset, text) cues
SyltFrame(desc, cues) ==
    Frame("SYLT", desc,
          [i \in 1..Len(cues) |-> StrV(cues[i].text)],
          [i \in 1..Len(cues) |-> IntV(cues[i].ts)])

Cue(ts, text) == [ts |-> ts, text |-> text]

TagEmpty == <<>>

TagFull ==
    <<TextFrame("TIT2", <<"t">>), TextFrame("TPE1", <<"r">>),
      TextFrame("TALB", <<"l">>), TextFrame("TRCK", <<"0", "3">>),
      TextFrame("TPOS", <<"1">>), TextFrame("TCON", <<"g">>),
      TextFrame("TDRC", <<"2", "0", "2", "0", "-", "0", "5">>),
      TextFrame("TCOM", <<"c">>), TextFrame("COMM", <<"m">>),
      TextFrame("USLT", <<"y">>),
      SyltFrame(<<>>, <<Cue(12, <<"a">>), Cue(5, <<"b", Quote>>)>>)>>

\* A tag whose disc is held by an extended-text frame, with two SYLT frames
TagOld ==
    <<TextFrame("TIT2", <<"o">>),
      Frame("TXXX", <<"n">>, <<StrV(<<"z">>)>>, <<>>),
      Frame("TXXX", <<" ", "D", "i", "s", "k">>, <<StrV(<<"2">>)>>, <<>>),
      SyltFrame(<<"x">>, <<Cue(7, <<"a">>)>>),
      SyltFrame(<<"y">>, <<Cue(7, <<"a">>), Cue(0, <<Backslash>>)>>)>>

\* A tag with a SYLT frame that holds no cue
TagBare ==
    <<TextFrame("TRCK", <<"7">>), TextFrame("TPOS", <<"2">>), SyltFrame(<<>>, <<>>)>>

PathA == Append(DirD, NameA)
PathB == Append(DirD, NameB)
PathN == Append(DirD, NameN)
PathSA == Append(DirS, NameA)
PathC == Append(DirE, NameC)

\* The directory trees the runs start from
FsPool ==
    { (PathA :> AudioFile(185, 128000, TagFull))
        @@ (PathB :> AudioFile(59, 320000, TagEmpty)),
      (PathA :> AudioFile(185, 128000, TagOld))
        @@ (PathSA :> AudioFile(60, 192000, TagFull))
        @@ (PathN :> AudioFile(0, 0, TagEmpty)),
      (PathA :> AudioFile(7, 64000, TagBare))
        @@ (PathB :> AudioFile(59, 320000, TagOld))
        @@ (PathC :> AudioFile(185, 128000, TagFull)),
      (PathC :> AudioFile(59, 320000, TagEmpty)) }

Dirs == {DirD, DirS, DirE}

\* A row as a dict from column name to cell text
RowDict(fn, t, trck, disc, date, lyr, cues) ==
    <<[k |-> FILENAME, v |-> fn], [k |-> TITLE, v |-> t],
      [k |-> ARTIST, v |-> IF t = <<>> THEN <<>> ELSE <<"r">>],
      [k |-> ALBUM, v |-> IF t = <<>> THEN <<>> ELSE <<"l">>],
      [k |-> TRACKNUMBER, v |-> trck], [k |-> DISC, v |-> disc],
      [k |-> GENRE, v |-> IF t = <<>> THEN <<>> ELSE <<"g">>],
      [k |-> DATE, v |-> date],
      [k |-> COMPOSER, v |-> IF t = <<>> THEN <<>> ELSE <<"c">>],
      [k |-> COMMENTS, v |-> IF t = <<>> THEN <<>> ELSE <<"m">>],
      [k |-> LENGTH, v |-> <<"3", ":", "0", "5">>],
      [k |-> BITRATE, v |-> <<"1", "2", "8">>],
      [k |-> LYRICS, v |-> lyr], [k |-> SYNCED_LYRICS, v |-> cues]>>

CueCellGood ==
    json_dumps(<<<<[k |-> TS_MS, v |-> IntV(12)], [k |-> TEXT, v |-> StrV(<<"a">>)]>>,
                 <<[k |-> TS_MS, v |-> IntV(5)], [k |-> TEXT, v |-> StrV(<<"b", Quote>>)]>>>>)

CueCellEmpty == <<"[", "]">>

\* No JSON at all
CueCellBad == <<"x", "[">>

\* A JSON array whose entry has no "text"
CueCellNoText == json_dumps(<<<<[k |-> TS_MS, v |-> IntV(5)]>>>>)

RowPool ==
    { RowDict(NameA, <<"t">>, <<"0", "3">>, <<"1">>, <<"2", "0", "2", "0", "-", "0", "5">>,
              <<"y">>, CueCellGood),
      RowDict(NameB, <<>>, <<>>, <<>>, <<>>, <<>>, <<>>),
      RowDict(NameA, <<"u">>, <<"0">>, <<"0">>, <<>>, <<>>, CueCellEmpty),
      RowDict(<<>>, <<"t">>, <<"4">>, <<"2">>, <<>>, <<"y">>, <<>>),
      RowDict(NameB, <<"t">>, <<"5">>, <<>>, <<>>, <<>>, CueCellBad),
      RowDict(NameC, <<"u">>, <<>>, <<"3">>, <<>>, <<>>, CueCellNoText) }

HeaderFull ==
    <<FILENAME, TITLE, ARTIST, ALBUM, TRACKNUMBER, DISC, GENRE, DATE, COMPOSER,
      COMMENTS, LENGTH, BITRATE, LYRICS, SYNCED_LYRICS>>

HeaderNoLyrics ==
    <<FILENAME, TITLE, ARTIST, ALBUM, TRACKNUMBER, DISC, GENRE, DATE, COMPOSER,
      COMMENTS, LENGTH, BITRATE>>

HeaderLegacy ==
    <<FILENAME, TITLE, ARTIST, ALBUM, TRACKNUMBER, GENRE, DATE, COMPOSER, COMMENTS>>

\* Column names as typed by hand: padded, capitalised, filename not first
HeaderTyped ==
    <<TITLE, <<" ", "F", "i", "l", "e", "n", "a", "m", "e", " ">>,
      <<"D", "i", "s", "c">>, SYNCED_LYRICS>>

\* No filename column
HeaderNoName == <<TITLE, <<"f", "i", "l", "e">>, DISC>>

\* The cells of a row dict under a header
RowCells(d, header) ==
    [j \in 1..Len(header) |->
        IF DictHas(d, lower(strip(header[j])))
        THEN DictGet(d, lower(strip(header[j])))
        ELSE <<>>]

\* Sequences over S of length 0..n
RECURSIVE SeqsUpTo(_, _)
SeqsUpTo(S, n) ==
    IF n = 0 THEN {<<>>}
    ELSE LET shorter == SeqsUpTo(S, n - 1)
         IN shorter \cup {Append(q, x) : q \in shorter, x \in S}

TablesOf(headers, pool, n) ==
    {NoFile, CsvFile(<<>>, <<>>)}
    \cup {CsvFile(h, [i \in 1..Len(ds) |-> RowCells(ds[i], h)]) :
            h \in headers, ds \in SeqsUpTo(pool, n)}

ImportTables ==
    TablesOf({HeaderFull, HeaderLegacy, HeaderTyped, HeaderNoName}, RowPool, MaxRows)

NoOut == [op |-> "none"]

-----------------------------------------------------------------------------
(* The import runs                                                         *)

InitImport ==
    /\ fs \in FsPool
    /\ csv \in ImportTables
    /\ out = NoOut
    /\ combined = <<>>
    /\ cue = <<>>
    /\ runs = 0
    /\ inputs = <<>>

\* python transfer-mp3md.py import <input_csv> <mp3_directory>
Import(mp3_dir) ==
    /\ out.op = "none"
    /\ LET r == import_metadata(csv, fs, mp3_dir)
       IN fs' = r.files /\ out' = r.out
    /\ UNCHANGED <<csv, combined, cue, runs, inputs>>

\* The same command of the earlier script
LegacyImport(mp3_dir) ==
    /\ out.op = "none"
    /\ LET r == legacy_import_metadata(csv, fs, mp3_dir)
       IN fs' = r.files /\ out' = r.out
    /\ UNCHANGED <<csv, combined, cue, runs, inputs>>

NextImport ==
    \/ \E d \in Dirs : Import(d)
    \/ \E d \in Dirs : LegacyImport(d)

SpecImport == InitImport /\ [][NextImport]_vars

-----------------------------------------------------------------------------
(* The export runs                                                         *)

MaxRuns == 2

HeaderSwapped == <<TITLE, FILENAME, DISC>>

HeaderNotes == <<<<"n", "o", "t", "e">>>>

\* Rows of an existing table, one per filename
ExportRowPool ==
    { RowDict(NameA, <<"t">>, <<"0", "3">>, <<"1">>, <<"2", "0", "2", "0", "-", "0", "5">>,
              <<"y">>, CueCellGood),
      RowDict(NameC, <<>>, <<>>, <<>>, <<>>, <<>>, <<>>) }

DistinctFilenames(ds) ==
    \A i, j \in 1..Len(ds) : i # j => DictGet(ds[i], FILENAME) # DictGet(ds[j], FILENAME)

ExportTables ==
    {NoFile, CsvFile(<<>>, <<>>)}
    \cup {CsvFile(h, [i \in 1..Len(ds) |-> RowCells(ds[i], h)]) :
            h \in {HeaderFull, HeaderNoLyrics, HeaderLegacy, HeaderSwapped, HeaderNotes},
            ds \in {q \in SeqsUpTo(ExportRowPool, MaxRows) : DistinctFilenames(q)}}

DirLists == {<<DirD>>, <<DirS>>, <<DirE>>, <<DirD, DirE>>}

InitExport ==
    /\ fs \in FsPool
    /\ csv \in ExportTables
    /\ out = NoOut
    /\ combined = <<>>
    /\ cue = <<>>
    /\ runs = 0
    /\ inputs = <<>>

\* python transfer-mp3md.py export <mp3_directory>... <output_csv>
Export(mp3_dirs, length_format, write_fails) ==
    /\ runs < MaxRuns
    /\ Len(csv.rows) <= MaxRows
    /\ LET r == export_metadata(csv, fs, mp3_dirs, length_format, write_fails)
       IN csv' = r.file /\ out' = r.out
    /\ runs' = runs + 1
    /\ UNCHANGED <<fs, combined, cue, inputs>>

\* The same command of the earlier script
LegacyExport(mp3_dir) ==
    /\ runs < MaxRuns
    /\ Len(csv.rows) <= MaxRows
    /\ LET r == legacy_export_metadata(csv, fs, mp3_dir)
       IN csv' = r.file /\ out' = r.out
    /\ runs' = runs + 1
    /\ UNCHANGED <<fs, combined, cue, inputs>>

NextExport ==
    \/ \E ds \in DirLists, f \in {"mm:ss", "seconds"}, w \in BOOLEAN : Export(ds, f, w)
    \/ \E d \in Dirs : LegacyExport(d)

SpecExport == InitExport /\ [][NextExport]_vars

-----------------------------------------------------------------------------
(* Claims about import                                                     *)

\* The column of the table behind each frame the import manages
ColumnFrames ==
    <<<<TITLE, "TIT2">>, <<ARTIST, "TPE1">>, <<ALBUM, "TALB">>,
      <<TRACKNUMBER, "TRCK">>, <<DISC, "TPOS">>, <<GENRE, "TCON">>,
      <<DATE, "TDRC">>, <<COMPOSER, "TCOM">>, <<COMMENTS, "COMM">>,
      <<LYRICS, "USLT">>, <<SYNCED_LYRICS, "SYLT">>>>

NormalizedHeader(file) == [j \in 1..Len(file.header) |-> lower(strip(file.header[j]))]

\* The text of row i of the table file under the column named col
RawCell(file, i, col) ==
    LET j == IndexOf(NormalizedHeader(file), col)
    IN IF j = 0 \/ j > Len(file.rows[i]) THEN <<>> ELSE file.rows[i][j]

ImportRan(impl) == out.op = "import" /\ out.impl = impl

\* C1: after import saves a row's file, every managed frame is in the file
\* exactly when the row's cell for it is non-empty, and no TXXX frame is left,
\* whatever the file held before.
C1_FullReplace ==
    ImportRan("mp3metadata") =>
        \A k \in 1..Len(out.saves) :
            LET sv == out.saves[k]
            IN /\ getall(sv.tags, "TXXX") = <<>>
               /\ \A m \in 1..Len(ColumnFrames) :
                    (getall(sv.tags, ColumnFrames[m][2]) # <<>>)
                        <=> (RawCell(csv, sv.row, ColumnFrames[m][1]) # <<>>)


TextColumns ==
    <<TITLE, ARTIST, ALBUM, TRACKNUMBER, DISC, GENRE, DATE, COMPOSER, COMMENTS>>

\* What export reads back from a file that holds the given tags
Decoded(path, tags) ==
    RecordOf(path :> AudioFile(0, 0, tags), path, "seconds")

\* C2: exporting a file that import has just written gives back, for every
\* managed field, the value of the imported record, and the empty string for
\* an empty field, whatever the file held before.
C2_RoundTrip ==
    ImportRan("mp3metadata") =>
        \A k \in 1..Len(out.saves) :
            LET sv == out.saves[k]
                row == out.df.rows[sv.row]
            IN \A m \in 1..Len(TextColumns) :
                 CellText(DictGet(Decoded(sv.path, sv.tags), TextColumns[m]))
                    = CellText(RowGet(out.df, row, TextColumns[m]))

\* The import read its table and got past its argument checks
ImportReadTable ==
    /\ out.op = "import"
    /\ read_csv(csv).err = "none"
    /\ out.status # "exit"

RowPath(i) == join(out.mp3_dir, RawCell(csv, i, FILENAME))

RowFileExists(i) == isfile(out.before, RowPath(i))

Saved(i) == \E k \in 1..Len(out.saves) : out.saves[k].row = i

\* Row i has a file and a cue cell that does not decode
BadCueRow(i) == RowFileExists(i) /\ CueCellRaises(out.df, out.df.rows[i])

\* C5: a row whose cue cell does not decode is skipped without touching its
\* file, the later rows whose files exist are still written, and the run ends
\* with its summary.
C5_RowErrorsIsolated ==
    (ImportRan("mp3metadata") /\ ImportReadTable /\ HasColumn(out.df, FILENAME)) =>
        \A i \in 1..Len(csv.rows) :
            BadCueRow(i) =>
                /\ ~Saved(i)
                /\ out.status = "done"
                /\ \A j \in (i + 1)..Len(csv.rows) :
                        (RowFileExists(j) /\ ~BadCueRow(j)) => Saved(j)

EmptyFilenameRows == {i \in 1..Len(csv.rows) : RawCell(csv, i, FILENAME) = <<>>}

FilenameWarnings ==
    {k \in 1..Len(out.warnings) : out.warnings[k].kind = "missing filename"}

\* C6: every row without a filename is skipped with a warning and without a
\* write, and the other rows are processed: k such rows of N give k warnings
\* and N-k processed rows.
C6_MissingFilename ==
    (out.op = "import" /\ out.status = "done") =>
        /\ Cardinality(FilenameWarnings) = Cardinality(EmptyFilenameRows)
        /\ \A i \in EmptyFilenameRows :
                /\ ~Saved(i)
                /\ \E k \in FilenameWarnings : out.warnings[k].row = i
        /\ \A i \in (1..Len(csv.rows)) \ EmptyFilenameRows :
                RowFileExists(i) => Saved(i)

\* No row before i raised
NoRaiseBefore(i) == \A j \in 1..(i - 1) : ~BadCueRow(j)

\* C7: import trims and lowercases the column names; without a filename
\* column it ends with an error and no file modified, and with one, however
\* it was written, it goes on to process the rows.
C7_FilenameColumn ==
    ImportReadTable =>
        IF Contains(NormalizedHeader(csv), FILENAME)
        THEN /\ out.status \in {"done", "raised"}
             /\ \A i \in 1..Len(csv.rows) :
                    (RowFileExists(i) /\ RawCell(csv, i, FILENAME) # <<>>
                        /\ NoRaiseBefore(i)
                        /\ (out.impl = "legacy" \/ ~BadCueRow(i))) => Saved(i)
        ELSE /\ out.status = "schema_error"
             /\ out.saves = <<>>
             /\ fs = out.before

\* A table whose filename column was written " Filename " is imported and a
\* file is updated
C7_Witness ==
    /\ ImportReadTable
    /\ ~Contains(csv.header, FILENAME)
    /\ Contains(NormalizedHeader(csv), FILENAME)
    /\ out.updated >= 1


-----------------------------------------------------------------------------
(* Timed lyrics through the table: export a file, import the table back    *)

CuePool ==
    {Cue(5, <<"a">>), Cue(5, <<"b", Quote>>), Cue(0, <<Backslash>>), Cue(12, <<"a">>)}

\* The SYLT frames of a file: none, one frame with all the cues, or two
\* frames with the cues split at position cut
SyltFrames(cues, frames, cut) ==
    CASE frames = 0 -> <<>>
      [] frames = 1 -> <<SyltFrame(<<>>, cues)>>
      [] OTHER -> <<SyltFrame(<<"x">>, SubSeq(cues, 1, cut)),
                    SyltFrame(<<"y">>, SubSeq(cues, cut + 1, Len(cues)))>>

InitCue ==
    \E cues \in SeqsUpTo(CuePool, MaxCues), frames \in 0..2, other \in BOOLEAN :
    \E cut \in 0..Len(cues) :
        /\ frames = 0 => cues = <<>>
        /\ frames < 2 => cut = 0
        /\ cue = [cues |-> cues, frames |-> frames]
        /\ fs = LET a == PathA :> AudioFile(185, 128000,
                                <<TextFrame("TIT2", <<"t">>)>>
                                    \o SyltFrames(cues, frames, cut))
                IN IF other THEN a @@ (PathB :> AudioFile(59, 320000, TagFull))
                   ELSE a
        /\ csv = NoFile
        /\ out = NoOut
        /\ combined = <<>>
        /\ runs = 0
        /\ inputs = <<>>

\* export <mp3_directory> <output_csv> into a new table
CueExport(length_format) ==
    /\ out.op = "none"
    /\ LET r == export_metadata(csv, fs, <<DirD>>, length_format, FALSE)
       IN csv' = r.file /\ out' = r.out
    /\ UNCHANGED <<fs, combined, cue, runs, inputs>>

\* import <input_csv> <mp3_directory> of the table just exported
CueImport ==
    /\ out.op = "export"
    /\ LET r == import_metadata(csv, fs, DirD)
       IN fs' = r.files /\ out' = r.out
    /\ UNCHANGED <<csv, combined, cue, runs, inputs>>

NextCue ==
    \/ \E f \in {"mm:ss", "seconds"} : CueExport(f)
    \/ CueImport

SpecCue == InitCue /\ [][NextCue]_vars

\* The cues as the ts_ms/text entries of the cell
CueEntries(cues) ==
    [i \in 1..Len(cues) |->
        <<[k |-> TS_MS, v |-> IntV(cues[i].ts)], [k |-> TEXT, v |-> StrV(cues[i].text)]>>]

\* The synced_lyrics cell of the row exported for a.mp3 (the first row)
CueCell == RawCell(csv, 1, SYNCED_LYRICS)

-----------------------------------------------------------------------------
(* Claims about export                                                     *)

ExportRan(impl) == out.op = "export" /\ out.impl = impl

\* The table the export found had rows
BeforeHasData ==
    out.before.exists /\ out.before.header # <<>> /\ out.before.rows # <<>>

\* Cell j of a line, blank when the line is shorter
CellAt(line, j) == IF j <= Len(line) THEN line[j] ELSE <<>>

\* The fields of the new records that were no column of the table
NewColumns ==
    SelectSeq(out.df_new.columns, LAMBDA c : ~Contains(out.before.header, c))

\* C3: an export onto a table that has rows keeps the header and adds exactly
\* the new fields after it, leaves every cell of every prior row as it was
\* with blanks under the added columns, and puts the new rows after the
\* prior ones. (A run whose write fails with an OSError is left out.)
C3_AppendPreserves ==
    (ExportRan("mp3metadata") /\ BeforeHasData /\ out.status # "OSError") =>
        LET n == Len(out.before.rows)
            w == Len(out.before.header)
        IN /\ csv.header = out.before.header \o NewColumns
           /\ Len(csv.rows) = n + Len(out.df_new.rows)
           /\ \A i \in 1..n :
                /\ \A j \in 1..w : CellAt(csv.rows[i], j) = CellAt(out.before.rows[i], j)
                /\ \A j \in (w + 1)..Len(csv.header) : CellAt(csv.rows[i], j) = <<>>
           /\ \A k \in 1..Len(out.df_new.rows) :
                Contains(csv.header, FILENAME) =>
                    RawCell(csv, n + k, FILENAME)
                        = CellText(RowGet(out.df_new, out.df_new.rows[k], FILENAME))

\* C4: an export onto a table that has rows and that fails once the append
\* step has begun leaves the table as it found it.
C4_AllOrNothing ==
    (ExportRan("mp3metadata") /\ BeforeHasData
        /\ out.status \in {"KeyError", "OSError"}) => csv = out.before

\* C9: whatever exports have run, the table has at most one row per filename.
C9_OneRowPerFilename ==
    (csv.exists /\ Contains(csv.header, FILENAME)) =>
        \A i, j \in 1..Len(csv.rows) :
            i # j => RawCell(csv, i, FILENAME) # RawCell(csv, j, FILENAME)


-----------------------------------------------------------------------------
(* md-csv2json, src/mp3metadata/md-csv2json.py                             *)

\* The lookup from a Farsi genre/album name to its acronym. A name and an
\* acronym are one symbol each, written here in Latin transliteration.
GENRE_ACRONYMS ==
    <<[k |-> <<"dastgah-e mahur">>, v |-> <<"MHUR">>],
      [k |-> <<"dastgah-e chahargah">>, v |-> <<"CHGH">>],
      [k |-> <<"dastgah-e segah">>, v |-> <<"SGAH">>],
      [k |-> <<"dastgah-e homayun">>, v |-> <<"HMYN">>],
      [k |-> <<"avaz-e esfahan">>, v |-> <<"H-ESF">>],
      [k |-> <<"dastgah-e nava">>, v |-> <<"NAVA">>],
      [k |-> <<"dastgah-e rastpanjgah">>, v |-> <<"RSTP">>],
      [k |-> <<"dastgah-e shur">>, v |-> <<"SHUR">>],
      [k |-> <<"avaz-e abuata">>, v |-> <<"S-ABT">>],
      [k |-> <<"avaz-e afshari">>, v |-> <<"S-AFS">>],
      [k |-> <<"avaz-e bayattork">>, v |-> <<"S-TRK">>],
      [k |-> <<"avaz-e dashti">>, v |-> <<"S-DST">>]>>

NoneV == [t |-> "none", s |-> <<>>, n |-> 0]

\* The index of the last occurrence of x in s, 0 when absent
LastIndexOf(s, x) ==
    IF \E i \in 1..Len(s) : s[i] = x
    THEN CHOOSE i \in 1..Len(s) : s[i] = x /\ \A j \in (i + 1)..Len(s) : s[j] # x
    ELSE 0

\* os.path.splitext(name)[0]: the name up to its last dot, unless only dots
\* come before it
splitext(name) ==
    LET dot == LastIndexOf(name, ".")
    IN IF dot > 0 /\ \E i \in 1..(dot - 1) : name[i] # "."
       THEN SubSeq(name, 1, dot - 1)
       ELSE name

\* row.get(col, ''): the default when the table has no such column
RowGetStr(df, row, col) ==
    IF HasColumn(df, col) THEN row[IndexOf(df.columns, col)] ELSE StrV(<<>>)

\* row.get(col, '').strip() raises AttributeError on an integer
StripRaises(df, row, col) == RowGetStr(df, row, col).t # "str"

Stripped(df, row, col) == strip(RowGetStr(df, row, col).s)

\* "row.get('album', '').strip() or row.get('genre', '').strip()"
GenreName(df, row) ==
    IF Stripped(df, row, ALBUM) # <<>> THEN Stripped(df, row, ALBUM)
    ELSE Stripped(df, row, GENRE)

GenreNameRaises(df, row) ==
    \/ StripRaises(df, row, ALBUM)
    \/ Stripped(df, row, ALBUM) = <<>> /\ StripRaises(df, row, GENRE)

\* "if not acronym or not filename: continue"
RowSkipped(df, row) ==
    ~DictHas(GENRE_ACRONYMS, GenreName(df, row)) \/ Stripped(df, row, FILENAME) = <<>>

\* f"{acronym}|{base_name}"
KeyOf(df, row) ==
    DictGet(GENRE_ACRONYMS, GenreName(df, row)) \o <<"|">>
        \o splitext(Stripped(df, row, FILENAME))

\* "int(disc_val) if disc_val else None", the text itself on ValueError
DiscValue(disc_val) ==
    IF disc_val = <<>> THEN NoneV
    ELSE IF IsIntLiteral(disc_val) THEN IntV(ParseInt(disc_val))
    ELSE StrV(disc_val)

\* row.get(col): None when the table has no such column
RowGetNone(df, row, col) ==
    IF HasColumn(df, col) THEN row[IndexOf(df.columns, col)] ELSE NoneV

\* "int(v) if pd.notna(v) and v != '' else None"
IntOrNone(v) ==
    CASE v.t = "int" -> v
      [] v.t = "str" /\ v.s # <<>> -> IntV(ParseInt(v.s))
      [] OTHER -> NoneV

\* int(v) raises ValueError on text that is no integer
IntRaises(v) == v.t = "str" /\ v.s # <<>> /\ ~IsIntLiteral(v.s)

\* The row raises after it was found to have an acronym and a filename
EntryRaises(df, row) ==
    \/ StripRaises(df, row, DISC)
    \/ IntRaises(RowGetNone(df, row, LENGTH))
    \/ IntRaises(RowGetNone(df, row, BITRATE))
    \/ \E c \in {TITLE, ARTIST, COMPOSER, COMMENTS} : StripRaises(df, row, c)

\* The metadata object stored for a row
EntryOf(df, row) ==
    [filename |-> StrV(Stripped(df, row, FILENAME)),
     title |-> StrV(Stripped(df, row, TITLE)),
     artist |-> StrV(Stripped(df, row, ARTIST)),
     genre |-> StrV(Stripped(df, row, ALBUM)),
     composer |-> StrV(Stripped(df, row, COMPOSER)),
     poet |-> StrV(Stripped(df, row, COMMENTS)),
     length |-> IntOrNone(RowGetNone(df, row, LENGTH)),
     disc |-> DiscValue(Stripped(df, row, DISC)),
     bitrate |-> IntOrNone(RowGetNone(df, row, BITRATE))]

\* combined[key] = val
DictSet(d, key, val) ==
    IF DictHas(d, key)
    THEN [i \in 1..Len(d) |-> IF d[i].k = key THEN [k |-> key, v |-> val] ELSE d[i]]
    ELSE Append(d, [k |-> key, v |-> val])

\* The rows of one table from row i
RECURSIVE MergeRows(_, _, _)
MergeRows(df, i, acc) ==
    IF i > Len(df.rows) \/ acc.raised THEN acc
    ELSE
    LET row == df.rows[i]
    IN IF GenreNameRaises(df, row) \/ StripRaises(df, row, FILENAME)
       THEN [acc EXCEPT !.raised = TRUE]
       ELSE IF RowSkipped(df, row) THEN MergeRows(df, i + 1, acc)
       ELSE IF EntryRaises(df, row) THEN [acc EXCEPT !.raised = TRUE]
       ELSE MergeRows(df, i + 1,
                [acc EXCEPT !.combined =
                    DictSet(acc.combined, KeyOf(df, row), EntryOf(df, row))])

\* The tables in order; a table that cannot be read raises
RECURSIVE MergeTables(_, _)
MergeTables(csv_files, acc) ==
    IF csv_files = <<>> \/ acc.raised THEN acc
    ELSE LET df == read_csv(Head(csv_files))
         IN IF df.err # "none" THEN [acc EXCEPT !.raised = TRUE]
            ELSE MergeTables(Tail(csv_files), MergeRows(df, 1, acc))

\* The tables of the input paths: those of a directory in listing order, a
\* .csv file itself, nothing for any other path
CollectCsvFiles(paths) ==
    Flatten([i \in 1..Len(paths) |->
                CASE paths[i].kind = "dir" -> paths[i].tables
                  [] paths[i].kind = "csv" -> paths[i].tables
                  [] OTHER -> <<>>])

\* convert_csvs_to_json(inputs): the index written, and how the run ended
convert_csvs_to_json(paths) ==
    LET csv_files == CollectCsvFiles(paths)
    IN IF csv_files = <<>>
       THEN [status |-> "exit", written |-> FALSE, combined |-> <<>>]
       ELSE LET acc == MergeTables(csv_files, [combined |-> <<>>, raised |-> FALSE])
            IN IF acc.raised
               THEN [status |-> "raised", written |-> FALSE, combined |-> <<>>]
               ELSE [status |-> "done", written |-> TRUE, combined |-> acc.combined]


-----------------------------------------------------------------------------
(* Runs of md-csv2json over one or two tables                               *)

Shur == <<"dastgah-e shur">>
Nava == <<"dastgah-e nava">>

JsonRow(fn, album, genre, title, disc, length) ==
    <<[k |-> FILENAME, v |-> fn], [k |-> TITLE, v |-> title],
      [k |-> ARTIST, v |-> <<"r">>], [k |-> ALBUM, v |-> album],
      [k |-> DISC, v |-> disc], [k |-> GENRE, v |-> genre],
      [k |-> COMPOSER, v |-> <<"c">>], [k |-> COMMENTS, v |-> <<"m">>],
      [k |-> LENGTH, v |-> length], [k |-> BITRATE, v |-> <<"1", "2", "8">>]>>

JsonRowPool ==
    {JsonRow(NameA, Shur, <<>>, <<"t">>, <<>>, <<"1", "8", "5">>),
     JsonRow(<<" ">> \o NameA, <<" ">> \o Shur \o <<" ">>, <<"g">>, <<"u">>,
             <<"1", "/", "2">>, <<>>),
     JsonRow(NameB, <<>>, Nava, <<"t">>, <<"0", "3">>, <<"6", "0">>),
     JsonRow(NameC, <<"l">>, Shur, <<"t">>, <<>>, <<>>),
     JsonRow(<<>>, Shur, <<>>, <<"t">>, <<>>, <<>>),
     JsonRow(NameA, Shur, <<>>, <<"u">>, <<"1">>, <<"3", ":", "0", "5">>)}

HeaderIndexShort == <<FILENAME, TITLE, GENRE>>

CsvPath(table) == [kind |-> "csv", tables |-> <<table>>]
DirPath(tables) == [kind |-> "dir", tables |-> tables]
OtherPath == [kind |-> "other", tables |-> <<>>]

InitJson ==
    \E ds \in SeqsUpTo(JsonRowPool, MaxRows),
       h2 \in {HeaderNoLyrics, HeaderIndexShort},
       mode \in {"files", "dir", "listed_reversed", "other"} :
    \E cut \in 0..Len(ds) :
        LET t1 == CsvFile(HeaderNoLyrics,
                    [i \in 1..cut |-> RowCells(ds[i], HeaderNoLyrics)])
            t2 == CsvFile(h2,
                    [i \in 1..(Len(ds) - cut) |-> RowCells(ds[cut + i], h2)])
        IN /\ mode = "other" => ds = <<>>
           /\ inputs = CASE mode = "files" -> <<CsvPath(t1), OtherPath, CsvPath(t2)>>
                         [] mode = "dir" -> <<DirPath(<<t1, t2>>)>>
                         [] mode = "listed_reversed" -> <<DirPath(<<t2, t1>>)>>
                         [] OTHER -> <<OtherPath>>
           /\ fs = <<>>
           /\ csv = NoFile
           /\ out = NoOut
           /\ combined = <<>>
           /\ cue = <<>>
           /\ runs = 0

\* md-csv2json.py <path> [<path> ...]
Convert ==
    /\ out.op = "none"
    /\ LET r == convert_csvs_to_json(inputs)
       IN /\ out' = [op |-> "json", status |-> r.status, written |-> r.written]
          /\ combined' = r.combined
    /\ UNCHANGED <<fs, csv, cue, runs, inputs>>

NextJson == Convert

SpecJson == InitJson /\ [][NextJson]_vars

-----------------------------------------------------------------------------
(* The composite index                                                      *)

ConvertRan == out.op = "json"

\* The rows of all input tables in processing order, each with its table
IndexRows ==
    LET files == CollectCsvFiles(inputs)
    IN Flatten([t \in 1..Len(files) |->
                  [i \in 1..Len(files[t].rows) |->
                      [header |-> files[t].header, cells |-> files[t].rows[i]]]])

\* The text of a row's cell, empty when the table has no such column
CellOf(r, col) ==
    IF \E j \in 1..Len(r.header) : r.header[j] = col /\ j <= Len(r.cells)
    THEN r.cells[IndexOf(r.header, col)]
    ELSE <<>>

AlbumMatches(r) == DictHas(GENRE_ACRONYMS, strip(CellOf(r, ALBUM)))

AlbumKey(r) ==
    DictGet(GENRE_ACRONYMS, strip(CellOf(r, ALBUM))) \o <<"|">>
        \o splitext(strip(CellOf(r, FILENAME)))

Indexed(r) == AlbumMatches(r) /\ strip(CellOf(r, FILENAME)) # <<>>

\* The text fields of the entry a row stands for
RowFields(r) ==
    [filename |-> StrV(strip(CellOf(r, FILENAME))),
     title |-> StrV(strip(CellOf(r, TITLE))),
     artist |-> StrV(strip(CellOf(r, ARTIST))),
     genre |-> StrV(strip(CellOf(r, ALBUM))),
     composer |-> StrV(strip(CellOf(r, COMPOSER))),
     poet |-> StrV(strip(CellOf(r, COMMENTS)))]

TextFields(e) ==
    [filename |-> e.filename, title |-> e.title, artist |-> e.artist,
     genre |-> e.genre, composer |-> e.composer, poet |-> e.poet]

\* C8: in the multi-source JSON index every row whose album name matches a
\* lookup entry and whose filename is non-empty is stored under the key
\* "<acronym>|<filename without its extension>", a row whose album matches no
\* lookup entry adds no key, and a key that several rows resolve to holds the
\* fields of the last of them in processing order.
C8_CompositeIndex ==
    ConvertRan /\ IndexRows # <<>> =>
        /\ \A i \in 1..Len(IndexRows) :
              Indexed(IndexRows[i]) =>
                  /\ DictHas(combined, AlbumKey(IndexRows[i]))
                  /\ \/ \E j \in (i + 1)..Len(IndexRows) :
                            /\ Indexed(IndexRows[j])
                            /\ AlbumKey(IndexRows[j]) = AlbumKey(IndexRows[i])
                     \/ TextFields(DictGet(combined, AlbumKey(IndexRows[i])))
                            = RowFields(IndexRows[i])
        /\ \A n \in 1..Len(combined) :
              \E i \in 1..Len(IndexRows) :
                  Indexed(IndexRows[i]) /\ AlbumKey(IndexRows[i]) = combined[n].k


-----------------------------------------------------------------------------
(* Exports of one file whose tag holds disc frames in any storage order     *)

MaxFrames == 3

\* Frames a tag may hold: the dedicated disc frame with and without a value,
\* extended-text frames whose description is, nearly is, or is not disc/disk
DiscFramePool ==
    {TextFrame("TPOS", <<"1", "/", "2">>),
     TextFrame("TPOS", <<>>),
     Frame("TXXX", <<"d", "i", "s", "c">>, <<StrV(<<"2">>)>>, <<>>),
     Frame("TXXX", <<" ", "D", "i", "s", "k", " ">>, <<StrV(<<"3">>)>>, <<>>),
     Frame("TXXX", <<"D", "I", "S", "C">>, <<StrV(<<>>)>>, <<>>),
     Frame("TXXX", <<"d", "i", "s", "c", "s">>, <<StrV(<<"8">>)>>, <<>>),
     Frame("TXXX", <<"n">>, <<StrV(<<"9">>)>>, <<>>),
     TextFrame("TIT2", <<"t">>)}

\* A tag holds one frame per HashKey
DistinctKeys(tags) ==
    \A i, j \in 1..Len(tags) : i # j => HashKey(tags[i]) # HashKey(tags[j])

InitDisc ==
    \E tags \in SeqsUpTo(DiscFramePool, MaxFrames) :
        /\ DistinctKeys(tags)
        /\ fs = (PathA :> AudioFile(60, 128000, tags))
        /\ csv = NoFile
        /\ out = NoOut
        /\ combined = <<>>
        /\ cue = <<>>
        /\ runs = 0
        /\ inputs = <<>>

\* export <mp3_directory> <output_csv> into a new table
DiscExport(length_format) ==
    /\ out.op = "none"
    /\ LET r == export_metadata(csv, fs, <<DirD>>, length_format, FALSE)
       IN csv' = r.file /\ out' = r.out
    /\ UNCHANGED <<fs, combined, cue, runs, inputs>>

NextDisc == \E f \in {"mm:ss", "seconds"} : DiscExport(f)

SpecDisc == InitDisc /\ [][NextDisc]_vars

\* The tag the exported file holds
DiscTag == fs[PathA].tag

\* Positions of the dedicated disc frame that holds a value
DiscValued == {i \in 1..Len(DiscTag) :
                  DiscTag[i].id = "TPOS" /\ DiscTag[i].text[1].s # <<>>}

\* Positions of the extended-text frames named disc or disk
DiscNamed == {i \in 1..Len(DiscTag) :
                 /\ DiscTag[i].id = "TXXX"
                 /\ lower(strip(DiscTag[i].desc)) \in
                        {<<"d", "i", "s", "c">>, <<"d", "i", "s", "k">>}}

First(S) == CHOOSE i \in S : \A j \in S : i <= j

\* The disc the storage order of the frames calls for
ExpectedDisc ==
    IF DiscValued # {} THEN DiscTag[First(DiscValued)].text[1].s
    ELSE IF DiscNamed # {} THEN DiscTag[First(DiscNamed)].text[1].s
    ELSE <<>>

-----------------------------------------------------------------------------
(* Appends onto a table that shares no column with the new records         *)

\* The export collected records and none of their fields is a column of the
\* table it found
NoOverlap ==
    /\ out.df_new.rows # <<>>
    /\ \A j \in 1..Len(out.df_new.columns) :
          ~Contains(out.before.header, out.df_new.columns[j])

\* C12: an export onto a table that has rows, when no field of the new
\* records is an existing column, skips the append, reports a warning and
\* leaves the table as it was: no row and no column is added.
C12_NoOverlapSkipped ==
    (out.op = "export" /\ BeforeHasData /\ NoOverlap) =>
        /\ out.status = "warned"
        /\ csv = out.before


-----------------------------------------------------------------------------
(* Alignment of appended rows                                               *)

\* The text record k of the export holds for a field, blank without it
FieldText(k, col) == CellText(RowGet(out.df_new, out.df_new.rows[k], col))

\* C13: every row an export appends to a table that has rows has exactly as
\* many cells as the header has columns, and each cell holds the value of the
\* field its column names, also when the header has columns the records lack
\* or does not list filename first.
C13_AppendAligned ==
    (out.op = "export" /\ BeforeHasData /\ out.status = "appended") =>
        LET n == Len(out.before.rows)
        IN /\ Len(csv.rows) = n + Len(out.df_new.rows)
           /\ \A k \in 1..Len(out.df_new.rows) :
                /\ Len(csv.rows[n + k]) = Len(csv.header)
                /\ \A j \in 1..Len(csv.header) :
                      csv.rows[n + k][j] = FieldText(k, csv.header[j])


-----------------------------------------------------------------------------
(* Export of a directory tree, then import with the same directory         *)

\* The tag each audio file of a tree starts with
TreeTags ==
    (PathA :> TagOld) @@ (PathB :> TagEmpty) @@ (PathSA :> TagFull)
        @@ (PathC :> TagBare) @@ (PathN :> TagEmpty)

InitTree ==
    \E present \in SUBSET {PathA, PathB, PathSA, PathC, PathN} :
        /\ fs = [q \in present |-> AudioFile(60, 128000, TreeTags[q])]
        /\ csv = NoFile
        /\ out = NoOut
        /\ combined = <<>>
        /\ cue = <<>>
        /\ runs = 0
        /\ inputs = <<>>

\* export <mp3_directory> <output_csv> into a new table
TreeExport(d, length_format) ==
    /\ out.op = "none"
    /\ LET r == export_metadata(csv, fs, <<d>>, length_format, FALSE)
       IN csv' = r.file /\ out' = r.out
    /\ inputs' = <<d>>
    /\ UNCHANGED <<fs, combined, cue, runs>>

\* The same with the earlier script
LegacyTreeExport(d) ==
    /\ out.op = "none"
    /\ LET r == legacy_export_metadata(csv, fs, d)
       IN csv' = r.file /\ out' = r.out
    /\ inputs' = <<d>>
    /\ UNCHANGED <<fs, combined, cue, runs>>

\* import <input_csv> <mp3_directory> with the directory just exported
TreeImport ==
    /\ out.op = "export" /\ out.impl = "mp3metadata"
    /\ LET r == import_metadata(csv, fs, inputs[1])
       IN fs' = r.files /\ out' = r.out
    /\ UNCHANGED <<csv, combined, cue, runs, inputs>>

LegacyTreeImport ==
    /\ out.op = "export" /\ out.impl = "legacy" /\ out.status # "exit"
    /\ LET r == legacy_import_metadata(csv, fs, inputs[1])
       IN fs' = r.files /\ out' = r.out
    /\ UNCHANGED <<csv, combined, cue, runs, inputs>>

NextTree ==
    \/ \E d \in Dirs, f \in {"mm:ss", "seconds"} : TreeExport(d, f)
    \/ \E d \in Dirs : LegacyTreeExport(d)
    \/ TreeImport
    \/ LegacyTreeImport

SpecTree == InitTree /\ [][NextTree]_vars

\* The audio files the export collected under its directory, in row order
Exported == WalkMp3(out.before, inputs[1])

\* C14: after an export of a directory tree and an import of the resulting
\* table with the same directory, every file the export collected, at any
\* depth, was written and counted as updated, and each row wrote only the
\* file it was exported from.
C14_ImportReachesExported ==
    (out.op = "import" /\ Exported # <<>>) =>
        /\ \A i \in 1..Len(Exported) :
              \E k \in 1..Len(out.saves) : out.saves[k].path = Exported[i]
        /\ out.updated = Len(Exported)
        /\ \A k \in 1..Len(out.saves) :
              out.saves[k].path = Exported[out.saves[k].row]

====
